---- MODULE Spec2Model ----
(***************************************************************************)
(* Model of the body validation pass of crates/ra_hir_ty/src/expr.rs:     *)
(* ExprValidator::validate_body and the checkers it dispatches to         *)
(* (record field completeness, call arity, match exhaustiveness, missing  *)
(* Ok in the tail expression).  The usefulness engine (_match.rs) is not  *)
(* part of expr.rs; it is modelled from the design document, section 4.3. *)
(***************************************************************************)
EXTENDS Integers, Sequences, FiniteSets, TLC

\* Bounds of the model.
MaxArms == 2
MaxExprs == 2
MaxArgs == 2
MaxNamed == 2

\* Option::None / a missing map entry.
None == "None"

(***************************************************************************)
(* Resolved types.  A type is an opaque identity; the side table below    *)
(* gives, per type, the reference projection and the constructor set.     *)
(***************************************************************************)
Types == {"bool", "unit", "E2", "F", "Z", "pair", "int", "&bool", "&pair", "&&bool"}

\* Ty::as_reference: the referent of a reference type, None otherwise.
as_reference(ty) ==
  CASE ty = "&bool" -> "bool"
    [] ty = "&pair" -> "pair"
    [] ty = "&&bool" -> "&bool"
    [] OTHER -> None

\* Types with a statically enumerable constructor set.
Enumerable(ty) == ty \in {"bool", "unit", "E2", "F", "Z", "pair"}

\* The constructors a type admits, in declaration order.  enum E2 {A, B},
\* enum F {N, S(bool)}, enum Z {}, pair = (bool, E2).
TypeCtors(ty) ==
  CASE ty = "bool" -> <<"true", "false">>
    [] ty = "unit" -> <<"()">>
    [] ty = "E2" -> <<"A", "B">>
    [] ty = "F" -> <<"N", "S">>
    [] ty = "pair" -> <<"(,)">>
    [] OTHER -> <<>>

\* The literal values of a non-enumerable domain that patterns may name.
Literals(ty) == IF ty = "int" THEN {"0", "1"} ELSE {}

\* The types of a constructor's sub-patterns.
CtorFields(c) ==
  CASE c = "S" -> <<"bool">>
    [] c = "(,)" -> <<"bool", "E2">>
    [] OTHER -> <<>>

Range(s) == {s[i] : i \in DOMAIN s}

(***************************************************************************)
(* Patterns: a closed tagged variant with an explicit sub-pattern list.   *)
(***************************************************************************)
Wild == [k |-> "wild", c |-> "_", args |-> <<>>]
Ctor(c, args) == [k |-> "ctor", c |-> c, args |-> args]
\* A pattern shape the engine does not implement (e.g. a range pattern).
Unimpl == [k |-> "other", c |-> "..", args |-> <<>>]

Wilds(n) == [i \in 1..n |-> Wild]

RECURSIVE PatsOf(_)
RECURSIVE PatSeqs(_)
\* All sequences of patterns typed by the sequence of types tys.
PatSeqs(tys) ==
  IF tys = <<>> THEN {<<>>}
  ELSE {<<p>> \o r : p \in PatsOf(Head(tys)), r \in PatSeqs(Tail(tys))}

\* The patterns of type ty: a wildcard, or one of the type's constructors (or
\* literals) applied to patterns of its field types.
PatsOf(ty) ==
  {Wild} \cup UNION {{Ctor(c, a) : a \in PatSeqs(CtorFields(c))} :
                       c \in Range(TypeCtors(ty)) \cup Literals(ty)}

(***************************************************************************)
(* The usefulness engine (design document, section 4.3).                  *)
(* A matrix is a sequence of rows, a row a sequence of patterns; tys are  *)
(* the types of the columns.                                              *)
(***************************************************************************)
Useful == "Useful"
NotUseful == "NotUseful"
Err == "Err"

\* specialize that leaves the head of a row in place instead of replacing it
\* by its sub-patterns.
specialize_keeps_head(m, c) ==
  LET Keeps(r) == r[1].k = "wild" \/ (r[1].k = "ctor" /\ r[1].c = c)
      keep == SelectSeq(m, Keeps)
      Expand(r) == (IF r[1].k = "wild" THEN Wilds(Len(CtorFields(c))) ELSE <<r[1]>>)
                     \o Tail(r)
  IN [i \in 1..Len(keep) |-> Expand(keep[i])]

\* The rows of m whose head is c contribute their sub-patterns, the rows
\* whose head is a wildcard contribute wildcards; the others are dropped.
specialize(m, c) ==
  LET Keeps(r) == r[1].k = "wild" \/ (r[1].k = "ctor" /\ r[1].c = c)
      keep == SelectSeq(m, Keeps)
      Expand(r) == (IF r[1].k = "wild" THEN Wilds(Len(CtorFields(c))) ELSE r[1].args)
                     \o Tail(r)
  IN [i \in 1..Len(keep) |-> Expand(keep[i])]

\* The rows of m whose head is a wildcard, with the head column dropped.
default_matrix(m) ==
  LET IsWild(r) == r[1].k = "wild"
      keep == SelectSeq(m, IsWild)
  IN [i \in 1..Len(keep) |-> Tail(keep[i])]

\* The head constructors that appear in the first column of m.
used_ctors(m) == {m[i][1].c : i \in {j \in DOMAIN m : m[j][1].k = "ctor"}}

\* Whether the observed constructor set covers every constructor of ty;
\* numeric and textual domains are never complete.
is_complete(ty, used) == Enumerable(ty) /\ Range(TypeCtors(ty)) \subseteq used

\* Whether the first column of m or the head of v holds a shape the engine
\* does not implement.
unimplemented(m, v) ==
  v[1].k = "other" \/ \E i \in DOMAIN m : m[i][1].k = "other"

RECURSIVE is_useful(_, _, _)
RECURSIVE any_ctor_useful(_, _, _, _)

\* The query c(_, .., _) followed by the rest of v, against m specialized by c.
is_useful_specialized(c, args, m, v, tys) ==
  is_useful(specialize(m, c), args \o Tail(v), CtorFields(c) \o Tail(tys))

\* Useful against some constructor of cs, in order; stops at the first
\* verdict that is not NotUseful (a Useful one, or an error).
any_ctor_useful(cs, m, v, tys) ==
  IF cs = <<>> THEN NotUseful
  ELSE LET r == is_useful_specialized(Head(cs), Wilds(Len(CtorFields(Head(cs)))), m, v, tys)
       IN IF r = NotUseful THEN any_ctor_useful(Tail(cs), m, v, tys) ELSE r

is_useful(m, v, tys) ==
  IF v = <<>> THEN (IF m = <<>> THEN Useful ELSE NotUseful)
  ELSE IF unimplemented(m, v) THEN Err
  ELSE IF v[1].k = "ctor" THEN is_useful_specialized(v[1].c, v[1].args, m, v, tys)
  ELSE IF is_complete(tys[1], used_ctors(m))
       THEN any_ctor_useful(TypeCtors(tys[1]), m, v, tys)
       ELSE is_useful(default_matrix(m), Tail(v), Tail(tys))

(***************************************************************************)
(* What exhaustiveness means: the values of a type and the patterns that  *)
(* match them.                                                            *)
(***************************************************************************)
RECURSIVE ValuesOf(_)
RECURSIVE ValueSeqs(_)
ValueSeqs(tys) ==
  IF tys = <<>> THEN {<<>>}
  ELSE {<<x>> \o r : x \in ValuesOf(Head(tys)), r \in ValueSeqs(Tail(tys))}

ValuesOf(ty) ==
  UNION {{[c |-> c, args |-> a] : a \in ValueSeqs(CtorFields(c))} : c \in Range(TypeCtors(ty))}

RECURSIVE Matches(_, _)
Matches(p, val) ==
  p.k = "wild" \/
  (p.k = "ctor" /\ p.c = val.c /\ \A i \in DOMAIN p.args : Matches(p.args[i], val.args[i]))

\* Some value of ty is matched by none of the patterns ps.
Uncovered(ty, ps) == \E val \in ValuesOf(ty) : \A i \in DOMAIN ps : ~Matches(ps[i], val)

(***************************************************************************)
(* The function body, its inference result and its source map.            *)
(* An expression node carries what the inference result and the source    *)
(* map record for its id: mapped says whether the source map resolves the *)
(* node to the syntax the diagnostic points at.                           *)
(***************************************************************************)
VARIABLES body, infer, resolver, pc, idx, sink, queries,
          mtx, qrow, coltys, steps

vars == <<body, infer, resolver, pc, idx, sink, queries, mtx, qrow, coltys, steps>>
passVars == <<body, infer, resolver, pc, idx, sink, queries>>
engineVars == <<mtx, qrow, coltys, steps>>

SeqsUpTo(S, n) == UNION {[1..k -> S] : k \in 0..n}

\* Variant metadata: the fields of a variant in declaration order.
\* struct S {x, y}; struct T {y, x, z}; union U {x, y}; enum variant V {x}.
Variants == {"S", "T", "U", "V"}
FieldNames == {"x", "y", "z"}
variant_data(v) ==
  CASE v = "S" -> <<"x", "y">>
    [] v = "T" -> <<"y", "x", "z">>
    [] v = "U" -> <<"x", "y">>
    [] v = "V" -> <<"x">>
    [] OTHER -> <<>>
IsUnion(v) == v = "U"

\* The diagnostics pushed to the sink.
Diag(kind, id, fields, expected, found) ==
  [kind |-> kind, id |-> id, fields |-> fields, expected |-> expected, found |-> found]
MissingFields(id, names) == Diag("MissingFields", id, names, 0, 0)
MissingPatFields(id, names) == Diag("MissingPatFields", id, names, 0, 0)
MismatchedArgCount(id, expected, found) == Diag("MismatchedArgCount", id, <<>>, expected, found)
MissingMatchArms(id) == Diag("MissingMatchArms", id, <<>>, 0, 0)
MissingOkInTailExpr(id) == Diag("MissingOkInTailExpr", id, <<>>, 0, 0)

(***************************************************************************)
(* record_literal_missing_fields / record_pattern_missing_fields          *)
(***************************************************************************)
NoFields == [some |-> FALSE, variant |-> None, missed |-> <<>>, exhaustive |-> FALSE]

\* missed_fields listing the field ids from the last to the first.
missed_fields_reversed(variant_def, fields) ==
  LET data == variant_data(variant_def)
      specified == Range(fields)
      Missed(f) == data[f] \notin specified
      fwd == SelectSeq([f \in 1..Len(data) |-> f], Missed)
  IN [i \in 1..Len(fwd) |-> fwd[Len(fwd) + 1 - i]]

\* The field ids of variant_def whose name is not among the specified ones,
\* in the order variant_data lists them.
missed_fields(variant_def, fields) ==
  LET data == variant_data(variant_def)
      specified == Range(fields)
      Missed(f) == data[f] \notin specified
  IN SelectSeq([f \in 1..Len(data) |-> f], Missed)

record_literal_missing_fields(id, expr) ==
  IF expr.kind # "RecordLit" THEN NoFields
  ELSE LET variant_def == expr.variant
           missed == missed_fields(variant_def, expr.fields)
       IN IF variant_def = None THEN NoFields
          ELSE IF IsUnion(variant_def) THEN NoFields
          ELSE IF missed = <<>> THEN NoFields
          ELSE [some |-> TRUE, variant |-> variant_def, missed |-> missed,
                exhaustive |-> ~expr.spread]

record_pattern_missing_fields(id, pat) ==
  IF pat.kind # "Record" THEN NoFields
  ELSE LET variant_def == pat.variant
           missed == missed_fields(variant_def, pat.fields)
       IN IF variant_def = None THEN NoFields
          ELSE IF IsUnion(variant_def) THEN NoFields
          ELSE IF missed = <<>> THEN NoFields
          ELSE [some |-> TRUE, variant |-> variant_def, missed |-> missed,
                exhaustive |-> ~pat.ellipsis]

\* The names of the missed field ids.
field_names(variant_def, missed) ==
  [i \in 1..Len(missed) |-> variant_data(variant_def)[missed[i]]]

create_record_literal_missing_fields_diagnostic(id, expr, variant_def, missed) ==
  IF expr.mapped THEN <<MissingFields(id, field_names(variant_def, missed))>> ELSE <<>>

create_record_pattern_missing_fields_diagnostic(id, pat, variant_def, missed) ==
  IF pat.mapped THEN <<MissingPatFields(id, field_names(variant_def, missed))>> ELSE <<>>

(***************************************************************************)
(* validate_call                                                          *)
(***************************************************************************)
\* The outcome of a checker: whether it panicked and what it pushed.
Outcome(panic, diags) == [panic |-> panic, diags |-> diags]

has_type_mismatch(inf) == inf.type_mismatches # {}

\* arg_count_diagnostic without the decrement for a method call.
arg_count_diagnostic_counts_receiver(call_id, expr, is_method_call, param_count, arg_count) ==
  IF arg_count # param_count /\ expr.mapped
  THEN <<MismatchedArgCount(call_id, param_count, arg_count)>>
  ELSE <<>>

\* Reports param_count and arg_count when they differ and the call maps to
\* source; a method call's receiver is not counted in the report.
arg_count_diagnostic(call_id, expr, is_method_call, param_count, arg_count) ==
  IF arg_count # param_count /\ expr.mapped
  THEN IF is_method_call
       THEN <<MismatchedArgCount(call_id, param_count - 1, arg_count - 1)>>
       ELSE <<MismatchedArgCount(call_id, param_count, arg_count)>>
  ELSE <<>>

\* validate_call past its guard: the callee, its signature and the counts.
check_call(call_id, expr) ==
  IF expr.kind = "Call"
  THEN \* type_of_expr[callee]: indexing a missing entry panics
       IF expr.callee.st = "NoEntry" THEN Outcome(TRUE, <<>>)
       ELSE IF expr.callee.st # "Callable" THEN Outcome(FALSE, <<>>)
       ELSE Outcome(FALSE, arg_count_diagnostic(call_id, expr, FALSE,
                                                expr.callee.params, expr.nargs))
  ELSE IF expr.kind = "MethodCall"
  THEN IF ~expr.resolved THEN Outcome(FALSE, <<>>)
       ELSE Outcome(FALSE, arg_count_diagnostic(call_id, expr, TRUE,
                                                expr.params, expr.nargs + 1))
  ELSE Outcome(FALSE, <<>>)

\* validate_call guarded by a mismatch on the call itself only.
validate_call_own_mismatch(inf, call_id, expr) ==
  IF \E m \in inf.type_mismatches : m.expr = call_id THEN Outcome(FALSE, <<>>)
  ELSE check_call(call_id, expr)

\* Only checks the call when the function has no type mismatch at all.
validate_call(inf, call_id, expr) ==
  IF has_type_mismatch(inf) THEN Outcome(FALSE, <<>>)
  ELSE check_call(call_id, expr)

(***************************************************************************)
(* validate_match                                                         *)
(***************************************************************************)
\* pat_ty == match_expr_ty, or match_expr_ty is a reference to pat_ty.
pat_type_fits(pat_ty, match_expr_ty) ==
  pat_ty = match_expr_ty \/
  (as_reference(match_expr_ty) # None /\ as_reference(match_expr_ty) = pat_ty)

\* The loop over the arms returns at the first arm whose pattern type is
\* unresolved or does not fit.
all_arms_fit(arms, match_expr_ty) ==
  \A i \in DOMAIN arms : arms[i].ty # None /\ pat_type_fits(arms[i].ty, match_expr_ty)

\* seen_matrix without the last arm.
seen_matrix_drops_last(arms) == [i \in 1..(Len(arms) - 1) |-> <<arms[i].pat>>]

\* The matrix seen: one single-column row per arm, in order.
seen_matrix(arms) == [i \in DOMAIN arms |-> <<arms[i].pat>>]

\* The type the engine classifies the column by: one reference layer stripped.
subject_type(match_expr_ty) ==
  IF as_reference(match_expr_ty) # None THEN as_reference(match_expr_ty) ELSE match_expr_ty

\* The verdict of is_useful(&cx, &seen, &PatStack::from_wild()).
wildcard_verdict(expr) ==
  is_useful(seen_matrix(expr.arms), <<Wild>>, <<subject_type(expr.subject)>>)

\* What validate_match pushed and the calls of is_useful it made.
MatchOutcome(diags, consulted) == [diags |-> diags, consulted |-> consulted]
Query(id, matrix, verdict) == [id |-> id, matrix |-> matrix, verdict |-> verdict]

\* validate_match leaving an arm that does not fit out of the matrix instead
\* of returning.
validate_match_skips_arm(id, expr) ==
  IF expr.subject = None THEN MatchOutcome(<<>>, <<>>)
  ELSE LET Fits(a) == a.ty # None /\ pat_type_fits(a.ty, expr.subject)
           seen == seen_matrix(SelectSeq(expr.arms, Fits))
           verdict == is_useful(seen, <<Wild>>, <<subject_type(expr.subject)>>)
           consulted == <<Query(id, seen, verdict)>>
       IN IF verdict # Useful THEN MatchOutcome(<<>>, consulted)
          ELSE IF expr.mapped THEN MatchOutcome(<<MissingMatchArms(id)>>, consulted)
          ELSE MatchOutcome(<<>>, consulted)

\* validate_match reporting on an error verdict as on a Useful one.
validate_match_reports_errors(id, expr) ==
  IF expr.subject = None THEN MatchOutcome(<<>>, <<>>)
  ELSE IF ~all_arms_fit(expr.arms, expr.subject) THEN MatchOutcome(<<>>, <<>>)
  ELSE LET verdict == wildcard_verdict(expr)
           consulted == <<Query(id, seen_matrix(expr.arms), verdict)>>
       IN IF verdict = NotUseful THEN MatchOutcome(<<>>, consulted)
          ELSE IF expr.mapped THEN MatchOutcome(<<MissingMatchArms(id)>>, consulted)
          ELSE MatchOutcome(<<>>, consulted)

validate_match(id, expr) ==
  IF expr.subject = None THEN MatchOutcome(<<>>, <<>>)
  ELSE IF ~all_arms_fit(expr.arms, expr.subject) THEN MatchOutcome(<<>>, <<>>)
  ELSE LET verdict == wildcard_verdict(expr)
           consulted == <<Query(id, seen_matrix(expr.arms), verdict)>>
       IN IF verdict # Useful THEN MatchOutcome(<<>>, consulted)
          ELSE IF expr.mapped THEN MatchOutcome(<<MissingMatchArms(id)>>, consulted)
          ELSE MatchOutcome(<<>>, consulted)

(***************************************************************************)
(* validate_results_in_tail_expr                                          *)
(***************************************************************************)
NoMismatch == [some |-> FALSE, expected |-> [apply |-> FALSE, ctor |-> None, params |-> <<>>],
               actual |-> None]

type_mismatch_for_expr(inf, id) ==
  IF \E m \in inf.type_mismatches : m.expr = id
  THEN LET m == CHOOSE m \in inf.type_mismatches : m.expr = id
       IN [some |-> TRUE, expected |-> m.expected, actual |-> m.actual]
  ELSE NoMismatch

\* validate_results_in_tail_expr looking the mismatch up on the tail
\* expression instead of the body block.
validate_results_mismatch_on_tail(inf, res, exprs, body_id, id) ==
  LET mismatch == type_mismatch_for_expr(inf, id)
      core_result_enum == res.core_result
      expected == mismatch.expected
  IN IF ~mismatch.some THEN <<>>
     ELSE IF core_result_enum = None THEN <<>>
     ELSE IF ~(expected.apply /\ expected.ctor = core_result_enum) THEN <<>>
     ELSE IF Len(expected.params) = 2 /\ expected.params[1] = mismatch.actual
               /\ exprs[id].mapped
          THEN <<MissingOkInTailExpr(id)>>
          ELSE <<>>

validate_results_in_tail_expr(inf, res, exprs, body_id, id) ==
  LET mismatch == type_mismatch_for_expr(inf, body_id)
      core_result_enum == res.core_result
      expected == mismatch.expected
  IN IF ~mismatch.some THEN <<>>
     ELSE IF core_result_enum = None THEN <<>>
     ELSE IF ~(expected.apply /\ expected.ctor = core_result_enum) THEN <<>>
     ELSE IF Len(expected.params) = 2 /\ expected.params[1] = mismatch.actual
               /\ exprs[id].mapped
          THEN <<MissingOkInTailExpr(id)>>
          ELSE <<>>

(***************************************************************************)
(* validate_body: one step per loop iteration.                            *)
(***************************************************************************)
\* literal_diagnostics reporting whatever the helper returns, exhaustive or
\* not.
literal_diagnostics_ignores_spread(id, expr) ==
  LET lit == record_literal_missing_fields(id, expr)
  IN IF lit.some
     THEN create_record_literal_missing_fields_diagnostic(id, expr, lit.variant, lit.missed)
     ELSE <<>>

\* The record literal check of the loop over body.exprs: reports the missed
\* fields only when the helper says the literal is exhaustive.
literal_diagnostics(id, expr) ==
  LET lit == record_literal_missing_fields(id, expr)
  IN IF lit.some /\ lit.exhaustive
     THEN create_record_literal_missing_fields_diagnostic(id, expr, lit.variant, lit.missed)
     ELSE <<>>

\* The record pattern check of the loop over body.pats.
pattern_diagnostics(id, pat) ==
  LET rec == record_pattern_missing_fields(id, pat)
  IN IF rec.some /\ rec.exhaustive
     THEN create_record_pattern_missing_fields_diagnostic(id, pat, rec.variant, rec.missed)
     ELSE <<>>

NoMatch == MatchOutcome(<<>>, <<>>)

\* One iteration of the loop over body.exprs: the record literal check,
\* then validate_match or validate_call.
ExprStep ==
  /\ pc = "exprs"
  /\ idx \in DOMAIN body.exprs
  /\ LET expr == body.exprs[idx]
         d1 == literal_diagnostics(idx, expr)
         call == IF expr.kind \in {"Call", "MethodCall"}
                 THEN validate_call(infer, idx, expr)
                 ELSE Outcome(FALSE, <<>>)
         mat == IF expr.kind = "Match" THEN validate_match(idx, expr) ELSE NoMatch
     IN /\ sink' = sink \o d1 \o mat.diags \o call.diags
        /\ queries' = queries \o mat.consulted
        /\ pc' = IF call.panic THEN "panicked"
                 ELSE IF idx < Len(body.exprs) THEN "exprs"
                 ELSE IF body.pats # <<>> THEN "pats" ELSE "tail"
        /\ idx' = IF call.panic THEN idx
                  ELSE IF idx < Len(body.exprs) THEN idx + 1 ELSE 1
  /\ UNCHANGED <<body, infer, resolver, engineVars>>

\* One iteration of the loop over body.pats.
PatStep ==
  /\ pc = "pats"
  /\ idx \in DOMAIN body.pats
  /\ sink' = sink \o pattern_diagnostics(idx, body.pats[idx])
  /\ pc' = IF idx < Len(body.pats) THEN "pats" ELSE "tail"
  /\ idx' = IF idx < Len(body.pats) THEN idx + 1 ELSE 1
  /\ UNCHANGED <<body, infer, resolver, queries, engineVars>>

\* The tail expression check that ends validate_body.
TailStep ==
  /\ pc = "tail"
  /\ LET body_expr == body.exprs[body.body_expr]
     IN sink' = sink \o (IF body_expr.kind = "Block" /\ body_expr.tail # 0
                         THEN validate_results_in_tail_expr(infer, resolver, body.exprs,
                                                            body.body_expr, body_expr.tail)
                         ELSE <<>>)
  /\ pc' = "done"
  /\ UNCHANGED <<body, infer, resolver, idx, queries, engineVars>>

Next == ExprStep \/ PatStep \/ TailStep

(***************************************************************************)
(* The bodies the pass is run on.                                         *)
(***************************************************************************)
CalleeTys ==
  {[st |-> "NoEntry", params |-> 0], [st |-> "NotCallable", params |-> 0]} \cup
  {[st |-> "Callable", params |-> n] : n \in 0..MaxArgs}
Call(callee, nargs, mapped) ==
  [kind |-> "Call", callee |-> callee, nargs |-> nargs, mapped |-> mapped]
\* A resolved method has a self parameter: params counts it, nargs does not
\* count the receiver.
MethodCall(resolved, params, nargs, mapped) ==
  [kind |-> "MethodCall", resolved |-> resolved, params |-> params, nargs |-> nargs,
   mapped |-> mapped]
Match(subject, arms, mapped) ==
  [kind |-> "Match", subject |-> subject, arms |-> arms, mapped |-> mapped]
RecordLit(variant, fields, spread, mapped) ==
  [kind |-> "RecordLit", variant |-> variant, fields |-> fields, spread |-> spread,
   mapped |-> mapped]
Block(tail) == [kind |-> "Block", tail |-> tail, mapped |-> TRUE]
Other(mapped) == [kind |-> "Other", mapped |-> mapped]
RecordPat(variant, fields, ellipsis, mapped) ==
  [kind |-> "Record", variant |-> variant, fields |-> fields, ellipsis |-> ellipsis,
   mapped |-> mapped]
Arm(pat, ty) == [pat |-> pat, ty |-> ty]

Calls == {Call(c, n, b) : c \in CalleeTys, n \in 0..MaxArgs, b \in BOOLEAN}
MethodCalls ==
  {MethodCall(TRUE, p, n, b) : p \in 1..(MaxArgs + 1), n \in 0..MaxArgs, b \in BOOLEAN} \cup
  {MethodCall(FALSE, 1, n, b) : n \in 0..MaxArgs, b \in BOOLEAN}

\* The arms a match on a subject of type ty may have: patterns of the
\* subject's type (by value for a reference), and arms whose pattern type is
\* unresolved or another type.
ArmsOf(ty) ==
  IF ty = None THEN {Arm(Wild, "bool"), Arm(Wild, None)}
  ELSE {Arm(p, subject_type(ty)) : p \in PatsOf(subject_type(ty))}
       \cup (IF as_reference(ty) # None THEN {Arm(Wild, ty)} ELSE {})
       \cup (IF subject_type(ty) = "int" THEN {Arm(Unimpl, "int")} ELSE {})
       \cup {Arm(Wild, None)}
       \cup {Arm(Wild, t) : t \in {"unit", "&bool", "&&bool"} \ {ty, as_reference(ty)}}
MatchesOn(ty) == {Match(ty, a, b) : a \in SeqsUpTo(ArmsOf(ty), MaxArms), b \in BOOLEAN}
AllMatches == UNION {MatchesOn(ty) : ty \in Types \cup {None}}

NamedFields == SeqsUpTo(FieldNames, MaxNamed)
RecordLits ==
  {RecordLit(v, f, s, b) : v \in Variants \cup {None}, f \in NamedFields,
                           s \in BOOLEAN, b \in BOOLEAN}
RecordPats ==
  {RecordPat(v, f, e, b) : v \in Variants \cup {None}, f \in NamedFields,
                           e \in BOOLEAN, b \in BOOLEAN}

\* Type mismatches: the expected type is Ty::Apply of a constructor to
\* parameters, or another type.
ExpectedTys ==
  {[apply |-> TRUE, ctor |-> c, params |-> ps] :
     c \in {"Result", "Option"},
     ps \in {<<"u8">>, <<"u8", "str">>, <<"str", "u8">>, <<"u8", "str", "str">>}}
  \cup {[apply |-> FALSE, ctor |-> None, params |-> <<>>]}
Mismatch(expr, expected, actual) == [expr |-> expr, expected |-> expected, actual |-> actual]
ResultOf(ps) == [apply |-> TRUE, ctor |-> "Result", params |-> ps]
Resolvers == {[core_result |-> "Result"], [core_result |-> None]}

Start ==
  /\ pc = "exprs"
  /\ idx = 1
  /\ sink = <<>>
  /\ queries = <<>>
  /\ mtx = <<>>
  /\ qrow = <<>>
  /\ coltys = <<>>
  /\ steps = <<>>

\* Nodes that accompany the node under study: each yields a diagnostic of
\* its own when it is reached, or is a call whose callee has no type entry.
Companions ==
  {Call([st |-> "Callable", params |-> 0], 1, TRUE),
   Call([st |-> "NoEntry", params |-> 0], 0, TRUE),
   Match("E2", <<Arm(Ctor("A", <<>>), "E2")>>, TRUE),
   RecordLit("S", <<"x">>, FALSE, TRUE),
   Other(TRUE)}

\* Bodies of calls and method calls among other nodes.
Init ==
  /\ Start
  /\ \E focus \in Calls \cup MethodCalls, pre \in SeqsUpTo(Companions, MaxExprs - 1),
        post \in SeqsUpTo(Companions, MaxExprs - 1), hasTail \in BOOLEAN,
        ps \in {<<>>, <<RecordPat("S", <<"y">>, FALSE, TRUE)>>} :
       /\ Len(pre) + Len(post) <= MaxExprs - 1
       /\ LET n == Len(pre) + Len(post) + 1
          IN /\ body = [exprs |-> pre \o <<focus>> \o post \o <<Block(IF hasTail THEN n ELSE 0)>>,
                        pats |-> ps, body_expr |-> n + 1]
             /\ \E env \in {<<{}, "Result">>,
                            <<{Mismatch(n + 1, ResultOf(<<"u8", "str">>), "u8")}, "Result">>,
                            <<{Mismatch(1, ResultOf(<<>>), "u8")}, None>>} :
                  /\ infer = [type_mismatches |-> env[1]]
                  /\ resolver = [core_result |-> env[2]]

Spec == Init /\ [][Next]_vars

\* Bodies with one match expression, over every subject type and arm list.
InitMatch ==
  /\ Start
  /\ \E m \in AllMatches :
       body = [exprs |-> <<m, Other(TRUE), Block(2)>>,
               pats |-> <<RecordPat("S", <<"y">>, FALSE, TRUE)>>, body_expr |-> 3]
  /\ infer = [type_mismatches |-> {}]
  /\ resolver = [core_result |-> "Result"]

SpecMatch == InitMatch /\ [][Next]_vars

\* Bodies with one record literal and one record pattern that name the same
\* fields of the same variant.
InitFields ==
  /\ Start
  /\ \E v \in Variants \cup {None}, f \in NamedFields, spread \in BOOLEAN,
        ellipsis \in BOOLEAN, litMapped \in BOOLEAN, patMapped \in BOOLEAN :
       body = [exprs |-> <<RecordLit(v, f, spread, litMapped), Block(1)>>,
               pats |-> <<RecordPat(v, f, ellipsis, patMapped)>>, body_expr |-> 2]
  /\ infer = [type_mismatches |-> {}]
  /\ resolver = [core_result |-> "Result"]

SpecFields == InitFields /\ [][Next]_vars

\* Bodies whose inference result records mismatches on the body block, on
\* the tail expression, or nowhere.
InitTail ==
  /\ Start
  /\ \E tailMapped \in BOOLEAN,
        last \in {Block(0), Block(1), Other(TRUE)},
        onBody \in SUBSET {3}, onTail \in SUBSET {1},
        expected \in ExpectedTys, actual \in {"u8", "str"} :
       /\ body = [exprs |-> <<Other(tailMapped), Other(TRUE), last>>,
                  pats |-> <<RecordPat("S", <<"y">>, FALSE, TRUE)>>, body_expr |-> 3]
       /\ infer = [type_mismatches |->
                     {Mismatch(e, expected, actual) : e \in onBody} \cup
                     {Mismatch(e, ResultOf(<<"u8", "str">>), "u8") : e \in onTail}]
  /\ resolver \in Resolvers

SpecTail == InitTail /\ [][Next]_vars

(***************************************************************************)
(* The recursion of is_useful, one recursive call per step.               *)
(* mtx, qrow and coltys are the arguments of the current call; steps      *)
(* lists the constructors specialized by so far ("_" for a default step). *)
(***************************************************************************)
\* The current call returns without recursing: no column is left, a shape
\* is not implemented, or the column's type has no constructor at all.
EngineDone ==
  \/ qrow = <<>>
  \/ unimplemented(mtx, qrow)
  \/ (qrow[1].k = "wild" /\ is_complete(coltys[1], used_ctors(mtx))
        /\ TypeCtors(coltys[1]) = <<>>)

\* The head of the query is a constructor: recurse on the specialization.
SpecializeQueryStep ==
  /\ ~EngineDone
  /\ qrow[1].k = "ctor"
  /\ mtx' = specialize(mtx, qrow[1].c)
  /\ qrow' = qrow[1].args \o Tail(qrow)
  /\ coltys' = CtorFields(qrow[1].c) \o Tail(coltys)
  /\ steps' = Append(steps, qrow[1].c)
  /\ UNCHANGED passVars

\* The head of the query is a wildcard and the first column is complete:
\* recurse on the specialization by a constructor, which is reached when no
\* earlier constructor gave a verdict other than NotUseful.
SpecializeCtorStep ==
  /\ ~EngineDone
  /\ qrow[1].k = "wild"
  /\ is_complete(coltys[1], used_ctors(mtx))
  /\ \E k \in DOMAIN TypeCtors(coltys[1]) :
       LET cs == TypeCtors(coltys[1])
           c == cs[k]
       IN /\ \A j \in 1..(k - 1) :
               is_useful_specialized(cs[j], Wilds(Len(CtorFields(cs[j]))), mtx, qrow, coltys)
                 = NotUseful
          /\ mtx' = specialize(mtx, c)
          /\ qrow' = Wilds(Len(CtorFields(c))) \o Tail(qrow)
          /\ coltys' = CtorFields(c) \o Tail(coltys)
          /\ steps' = Append(steps, c)
  /\ UNCHANGED passVars

\* The head of the query is a wildcard and the first column is incomplete:
\* recurse on the default matrix.
DefaultStep ==
  /\ ~EngineDone
  /\ qrow[1].k = "wild"
  /\ ~is_complete(coltys[1], used_ctors(mtx))
  /\ mtx' = default_matrix(mtx)
  /\ qrow' = Tail(qrow)
  /\ coltys' = Tail(coltys)
  /\ steps' = Append(steps, "_")
  /\ UNCHANGED passVars

NextEngine == SpecializeQueryStep \/ SpecializeCtorStep \/ DefaultStep

\* Every matrix of single-column rows and every single-pattern query row.
InitEngine ==
  /\ body = [exprs |-> <<Block(0)>>, pats |-> <<>>, body_expr |-> 1]
  /\ infer = [type_mismatches |-> {}]
  /\ resolver = [core_result |-> None]
  /\ pc = "done"
  /\ idx = 1
  /\ sink = <<>>
  /\ queries = <<>>
  /\ steps = <<>>
  /\ \E ty \in {t \in Types : as_reference(t) = None} :
       LET ps == PatsOf(ty) \cup (IF ty = "int" THEN {Unimpl} ELSE {})
       IN /\ coltys = <<ty>>
          /\ \E rows \in SeqsUpTo(ps, MaxArms), q \in ps :
               /\ mtx = [i \in DOMAIN rows |-> <<rows[i]>>]
               /\ qrow = <<q>>

SpecEngine == InitEngine /\ [][NextEngine]_vars /\ WF_vars(NextEngine)

(***************************************************************************)
(* Properties.                                                            *)
(***************************************************************************)
\* The loop over body.exprs has finished expression i.
ExprDone(i) ==
  /\ i \in DOMAIN body.exprs
  /\ pc \in {"pats", "tail", "done"} \/ (pc \in {"exprs", "panicked"} /\ idx > i)

\* The loop over body.pats has finished pattern i.
PatDone(i) ==
  /\ i \in DOMAIN body.pats
  /\ pc \in {"tail", "done"} \/ (pc = "pats" /\ idx > i)

\* The diagnostics of a kind the sink holds for node i, in order.
DiagsFor(kind, i) ==
  LET Is(d) == d.kind = kind /\ d.id = i
  IN SelectSeq(sink, Is)

Reported(kind, i) == DiagsFor(kind, i) # <<>>

\* A call the arity checker resolves: a callable callee, or a method call
\* with a resolved target.
ResolvedCall(e) ==
  \/ e.kind = "Call" /\ e.callee.st = "Callable"
  \/ e.kind = "MethodCall" /\ e.resolved
\* Parameters and arguments as written in source (no receiver).
SourceParams(e) == IF e.kind = "Call" THEN e.callee.params ELSE e.params - 1
SourceArgs(e) == e.nargs

\* C4 as stated: with no type mismatch, a resolved call is reported iff its
\* parameter count differs from its argument count, with expected = the
\* parameters and found = the arguments, the receiver not counted.
C4_ReportedIffCountsDiffer ==
  infer.type_mismatches = {} =>
    \A i \in DOMAIN body.exprs :
      (ExprDone(i) /\ ResolvedCall(body.exprs[i])) =>
        LET e == body.exprs[i]
        IN DiagsFor("MismatchedArgCount", i) =
             IF SourceParams(e) # SourceArgs(e)
             THEN <<MismatchedArgCount(i, SourceParams(e), SourceArgs(e))>>
             ELSE <<>>

\* C4 amended: with no type mismatch, a resolved call is reported iff its
\* parameter count differs from its argument count and the call maps to a
\* source position; the diagnostic carries expected = the parameters and
\* found = the arguments, the receiver of a method call not counted.
C4_ReportedIffCountsDifferAndMapped ==
  infer.type_mismatches = {} =>
    \A i \in DOMAIN body.exprs :
      (ExprDone(i) /\ ResolvedCall(body.exprs[i])) =>
        LET e == body.exprs[i]
        IN DiagsFor("MismatchedArgCount", i) =
             IF SourceParams(e) # SourceArgs(e) /\ e.mapped
             THEN <<MismatchedArgCount(i, SourceParams(e), SourceArgs(e))>>
             ELSE <<>>

\* S.method() with method(&self, arg) has been checked: expected 1, found 0.
C4_Witness ==
  /\ infer.type_mismatches = {}
  /\ \E i \in DOMAIN body.exprs :
       /\ ExprDone(i)
       /\ body.exprs[i] = MethodCall(TRUE, 2, 0, TRUE)
       /\ DiagsFor("MismatchedArgCount", i) = <<MismatchedArgCount(i, 1, 0)>>

\* C5: when the inference result holds a type mismatch, no call of the
\* function is reported for its argument count.
C5_MismatchSilencesArity ==
  infer.type_mismatches # {} =>
    \A k \in DOMAIN sink : sink[k].kind # "MismatchedArgCount"

\* The pass has finished a body whose mismatch lies on another expression
\* than a mapped call with a wrong argument count.
C5_Witness ==
  /\ pc = "done"
  /\ \E i \in DOMAIN body.exprs :
       /\ ResolvedCall(body.exprs[i])
       /\ body.exprs[i].mapped
       /\ SourceParams(body.exprs[i]) # SourceArgs(body.exprs[i])
       /\ infer.type_mismatches # {}
       /\ \A m \in infer.type_mismatches : m.expr # i

\* What expression i yields when it is checked alone.
OwnDiagnostics(i) ==
  LET e == body.exprs[i]
  IN literal_diagnostics(i, e)
       \o (IF e.kind = "Match" THEN validate_match(i, e).diags ELSE <<>>)
       \o (IF e.kind \in {"Call", "MethodCall"} THEN validate_call(infer, i, e).diags
           ELSE <<>>)

\* C9: validate_body never aborts, and when it has ended the sink holds the
\* diagnostics of every expression of the body.
C9_NeverAborts ==
  /\ pc # "panicked"
  /\ pc \in {"done", "panicked"} =>
       \A i \in DOMAIN body.exprs : \A k \in DOMAIN OwnDiagnostics(i) :
         \E j \in DOMAIN sink : sink[j] = OwnDiagnostics(i)[k]

\* The patterns of the arms of a match, in order.
ArmPats(e) == [i \in DOMAIN e.arms |-> e.arms[i].pat]

\* The calls of is_useful made for expression i.
QueriesFor(i) ==
  LET Is(q) == q.id = i
  IN SelectSeq(queries, Is)

\* A match on a fully enumerable subject type whose arm pattern types all
\* equal the subject type.
EnumerableMatch(e) ==
  /\ e.kind = "Match"
  /\ Enumerable(e.subject)
  /\ \A k \in DOMAIN e.arms : e.arms[k].ty = e.subject

FittingMatch(e) ==
  /\ e.kind = "Match"
  /\ e.subject # None
  /\ \A k \in DOMAIN e.arms :
       e.arms[k].ty # None /\ (e.arms[k].ty = e.subject \/ e.arms[k].ty = as_reference(e.subject))

\* C2 as stated: for a match whose arm pattern types all fit, the match is
\* reported iff is_useful returns Useful for the wildcard against the matrix
\* of all arms in order.
C2_ReportedIffUseful ==
  \A i \in DOMAIN body.exprs :
    (ExprDone(i) /\ FittingMatch(body.exprs[i])) =>
      /\ Len(QueriesFor(i)) = 1
      /\ QueriesFor(i)[1].matrix = [k \in DOMAIN body.exprs[i].arms |-> <<body.exprs[i].arms[k].pat>>]
      /\ Reported("MissingMatchArms", i) <=> (QueriesFor(i)[1].verdict = Useful)

\* C2 amended: for such a match, is_useful is called once, on the matrix of
\* all arms in order, and the match is reported iff the verdict is Useful
\* and the match expression maps to a source position; NotUseful and error
\* verdicts are silent.
C2_ReportedIffUsefulAndMapped ==
  \A i \in DOMAIN body.exprs :
    (ExprDone(i) /\ FittingMatch(body.exprs[i])) =>
      /\ Len(QueriesFor(i)) = 1
      /\ QueriesFor(i)[1].matrix = [k \in DOMAIN body.exprs[i].arms |-> <<body.exprs[i].arms[k].pat>>]
      /\ DiagsFor("MissingMatchArms", i) =
           IF QueriesFor(i)[1].verdict = Useful /\ body.exprs[i].mapped
           THEN <<MissingMatchArms(i)>> ELSE <<>>

\* A mapped match on an int with a literal arm and an arm of a shape the
\* engine does not implement has been checked: an error verdict, no report.
C2_Witness ==
  /\ ExprDone(1)
  /\ body.exprs[1] = Match("int", <<Arm(Ctor("0", <<>>), "int"), Arm(Unimpl, "int")>>, TRUE)
  /\ QueriesFor(1)[1].verdict = Err
  /\ ~Reported("MissingMatchArms", 1)

\* An arm whose pattern type is unresolved or is neither the subject type
\* nor its referent.
OffendingArm(a, subject) ==
  a.ty = None \/ (a.ty # subject /\ (as_reference(subject) = None \/ a.ty # as_reference(subject)))

\* C3: a match with an offending arm, at any position, is not reported and
\* is_useful is not called for it.
C3_OffendingArmAbandons ==
  \A i \in DOMAIN body.exprs :
    (/\ ExprDone(i)
     /\ body.exprs[i].kind = "Match"
     /\ \E k \in DOMAIN body.exprs[i].arms :
          OffendingArm(body.exprs[i].arms[k], body.exprs[i].subject)) =>
      /\ ~Reported("MissingMatchArms", i)
      /\ QueriesFor(i) = <<>>

\* A mapped match on E2 whose first arm is A and whose second arm has an
\* unresolved type has been checked: B is uncovered, nothing is reported.
C3_Witness ==
  /\ ExprDone(1)
  /\ body.exprs[1] = Match("E2", <<Arm(Ctor("A", <<>>), "E2"), Arm(Wild, None)>>, TRUE)
  /\ sink = <<>>

\* The names of the fields of variant v that are not among named, in the
\* order the variant declares them.
DeclaredMinusNamed(v, named) ==
  LET NotNamed(n) == n \notin Range(named)
  IN SelectSeq(variant_data(v), NotNamed)

\* A record literal or pattern that resolves to a variant that is no union.
ResolvedRecord(n) == n.variant # None /\ ~IsUnion(n.variant)

\* C6 as stated: for a record literal or pattern of a non-union variant with
\* no spread or rest marker, a diagnostic is emitted iff the declared fields
\* minus the named ones is non-empty, and it lists exactly that difference
\* in declaration order; both helpers compute the same difference.
C6_MissingFieldsExact ==
  /\ \A i \in DOMAIN body.exprs :
       LET e == body.exprs[i]
       IN (ExprDone(i) /\ e.kind = "RecordLit" /\ ResolvedRecord(e) /\ ~e.spread) =>
            DiagsFor("MissingFields", i) =
              IF DeclaredMinusNamed(e.variant, e.fields) # <<>>
              THEN <<MissingFields(i, DeclaredMinusNamed(e.variant, e.fields))>>
              ELSE <<>>
  /\ \A i \in DOMAIN body.pats :
       LET q == body.pats[i]
       IN (PatDone(i) /\ q.kind = "Record" /\ ResolvedRecord(q) /\ ~q.ellipsis) =>
            DiagsFor("MissingPatFields", i) =
              IF DeclaredMinusNamed(q.variant, q.fields) # <<>>
              THEN <<MissingPatFields(i, DeclaredMinusNamed(q.variant, q.fields))>>
              ELSE <<>>

\* C6 amended: as C6, with the diagnostic emitted iff the difference is
\* non-empty and the literal or pattern maps to a source position; the two
\* helpers return the same field ids for the same variant and named fields.
C6_MissingFieldsExactWhenMapped ==
  /\ \A i \in DOMAIN body.exprs :
       LET e == body.exprs[i]
       IN (ExprDone(i) /\ e.kind = "RecordLit" /\ ResolvedRecord(e) /\ ~e.spread) =>
            DiagsFor("MissingFields", i) =
              IF DeclaredMinusNamed(e.variant, e.fields) # <<>> /\ e.mapped
              THEN <<MissingFields(i, DeclaredMinusNamed(e.variant, e.fields))>>
              ELSE <<>>
  /\ \A i \in DOMAIN body.pats :
       LET q == body.pats[i]
       IN (PatDone(i) /\ q.kind = "Record" /\ ResolvedRecord(q) /\ ~q.ellipsis) =>
            DiagsFor("MissingPatFields", i) =
              IF DeclaredMinusNamed(q.variant, q.fields) # <<>> /\ q.mapped
              THEN <<MissingPatFields(i, DeclaredMinusNamed(q.variant, q.fields))>>
              ELSE <<>>
  /\ \A i \in DOMAIN body.exprs, j \in DOMAIN body.pats :
       LET e == body.exprs[i]
           q == body.pats[j]
       IN (e.kind = "RecordLit" /\ q.kind = "Record" /\ e.variant = q.variant
             /\ e.fields = q.fields) =>
            /\ record_literal_missing_fields(i, e).some = record_pattern_missing_fields(j, q).some
            /\ record_literal_missing_fields(i, e).missed
                 = record_pattern_missing_fields(j, q).missed

\* T {x: ..} and the pattern T {x: ..}, with T declared {y, x, z}, have been
\* checked: both report y then z.
C6_Witness ==
  /\ pc = "done"
  /\ body.exprs[1] = RecordLit("T", <<"x">>, FALSE, TRUE)
  /\ DiagsFor("MissingFields", 1) = <<MissingFields(1, <<"y", "z">>)>>
  /\ DiagsFor("MissingPatFields", 1) = <<MissingPatFields(1, <<"y", "z">>)>>

\* C7: no missing-fields diagnostic for a literal with a spread, a pattern
\* with a rest marker, or a literal or pattern of a union; with a spread or
\* rest marker the helper still returns the missed fields, marked not
\* exhaustive; for a union or an unresolved variant it returns nothing.
C7_SpreadRestUnionSilent ==
  /\ \A i \in DOMAIN body.exprs :
       LET e == body.exprs[i]
           r == record_literal_missing_fields(i, e)
       IN e.kind = "RecordLit" =>
            /\ (e.spread \/ e.variant = None \/ IsUnion(e.variant)) =>
                 ~Reported("MissingFields", i)
            /\ (e.variant = None \/ IsUnion(e.variant)) => ~r.some
            /\ (e.spread /\ ResolvedRecord(e) /\ DeclaredMinusNamed(e.variant, e.fields) # <<>>) =>
                 /\ r.some
                 /\ ~r.exhaustive
                 /\ field_names(r.variant, r.missed) = DeclaredMinusNamed(e.variant, e.fields)
  /\ \A i \in DOMAIN body.pats :
       LET q == body.pats[i]
           r == record_pattern_missing_fields(i, q)
       IN q.kind = "Record" =>
            /\ (q.ellipsis \/ q.variant = None \/ IsUnion(q.variant)) =>
                 ~Reported("MissingPatFields", i)
            /\ (q.variant = None \/ IsUnion(q.variant)) => ~r.some
            /\ (q.ellipsis /\ ResolvedRecord(q) /\ DeclaredMinusNamed(q.variant, q.fields) # <<>>) =>
                 /\ r.some
                 /\ ~r.exhaustive
                 /\ field_names(r.variant, r.missed) = DeclaredMinusNamed(q.variant, q.fields)

\* S {x: .., ..base} and the pattern S {x, ..}, both mapped, have been
\* checked: y is missed by both and nothing is reported.
C7_Witness ==
  /\ pc = "done"
  /\ body.exprs[1] = RecordLit("S", <<"x">>, TRUE, TRUE)
  /\ body.pats[1] = RecordPat("S", <<"x">>, TRUE, TRUE)
  /\ record_literal_missing_fields(1, body.exprs[1]).missed = <<2>>
  /\ sink = <<>>

\* The conditions of the missing-Ok diagnostic: the body is a block with a
\* tail, a mismatch is recorded on that block, the Result enum resolves, the
\* expected type is Result applied to two parameters, the first is the
\* actual type, and the tail expression maps to a source position.
WrapConditions ==
  LET b == body.exprs[body.body_expr]
  IN /\ b.kind = "Block"
     /\ b.tail # 0
     /\ resolver.core_result # None
     /\ body.exprs[b.tail].mapped
     /\ \E m \in infer.type_mismatches :
          /\ m.expr = body.body_expr
          /\ m.expected.apply
          /\ m.expected.ctor = resolver.core_result
          /\ Len(m.expected.params) = 2
          /\ m.expected.params[1] = m.actual

\* C8: the sink holds at most one missing-Ok diagnostic; it holds one,
\* anchored to the tail expression, iff the pass has ended and all the
\* conditions hold.
C8_OneWrapIffConditions ==
  LET IsWrap(d) == d.kind = "MissingOkInTailExpr"
  IN SelectSeq(sink, IsWrap) =
       IF pc = "done" /\ WrapConditions
       THEN <<MissingOkInTailExpr(body.exprs[body.body_expr].tail)>>
       ELSE <<>>

\* The pass has ended on a body whose block expected Result<u8, str> and got
\* u8, with another mismatch on the tail expression: one diagnostic on the
\* tail.
C8_Witness ==
  /\ pc = "done"
  /\ Cardinality(infer.type_mismatches) = 2
  /\ Len(sink) > 0
  /\ sink[Len(sink)] = MissingOkInTailExpr(1)

\* The number of constructor patterns in a pattern, a row, a matrix.
RECURSIVE CtorCount(_)
RECURSIVE RowCtorCount(_)
RowCtorCount(row) ==
  IF row = <<>> THEN 0 ELSE CtorCount(Head(row)) + RowCtorCount(Tail(row))
CtorCount(p) == IF p.k = "ctor" THEN 1 + RowCtorCount(p.args) ELSE 0
RECURSIVE MatrixCtorCount(_)
MatrixCtorCount(m) ==
  IF m = <<>> THEN 0 ELSE RowCtorCount(Head(m)) + MatrixCtorCount(Tail(m))

\* C10 as stated: each recursive step strictly decreases the width and does
\* not increase the row count.
C10_WidthDecreases ==
  [][Len(qrow') < Len(qrow) /\ Len(mtx') <= Len(mtx)]_vars

\* C10 amended: the procedure terminates; a recursive step specializing by
\* a constructor with k sub-patterns changes the width by k - 1 (a default
\* step by -1), every step either strictly decreases the number of
\* constructor patterns in the matrix and the query row together, or leaves
\* it no larger and strictly decreases the width; the row count never grows.
C10_TerminatesByPatternCount ==
  /\ [][LET c == steps'[Len(steps')]
            before == MatrixCtorCount(mtx) + RowCtorCount(qrow)
            after == MatrixCtorCount(mtx') + RowCtorCount(qrow')
        IN /\ Len(qrow') = Len(qrow) - 1 + Len(CtorFields(c))
           /\ after < before \/ (after = before /\ Len(qrow') < Len(qrow))
           /\ Len(mtx') <= Len(mtx)
           /\ \A i \in DOMAIN mtx' : Len(mtx'[i]) = Len(qrow')]_vars
  /\ <>EngineDone

\* The query has been specialized by the pair constructor, which has two
\* sub-patterns: one column became two.
C10_Witness ==
  /\ steps = <<"(,)">>
  /\ Len(qrow) = 2
  /\ Len(mtx) = 2
====
